---- MODULE Spec2Model ----
(***************************************************************************)
(* Model of owl_import_csv.py: the CSV reader read_csv_cases, the degree   *)
(* normalisation AccidentCase.normalized_degree and the import loop of     *)
(* main.                                                                   *)
(*                                                                         *)
(* A Python str is a sequence of one-character strings, so that strip,     *)
(* split/join and the substring test `in` are computed and not assumed.    *)
(* The two words normalized_degree returns are single tokens.              *)
(***************************************************************************)
EXTENDS Integers, Sequences, FiniteSets, TLC

VARIABLES
    csv,                \* the rows csv.DictReader yields for the --csv file
    owl,                \* the triples of the --owl file
    pc,                 \* position of the run
    r,                  \* read_csv_cases: index of the next row of the reader
    cases,              \* read_csv_cases: the local list `cases`
    import_cases,       \* main: import_cases
    g,                  \* main: the rdflib graph g
    existing_cases,     \* main: existing_cases
    named_individuals,  \* main: named_individuals
    i,                  \* main: index of `case` in import_cases
    k,                  \* main: index in the inner cause / equipment loop
    err,                \* the exception that ended the run, if any
    out,                \* the --out file
    degree,             \* normalized_degree: self.degree
    normalized          \* normalized_degree: what the call gave

vars == <<csv, owl, pc, r, cases, import_cases, g, existing_cases,
          named_individuals, i, k, err, out, degree, normalized>>

-----------------------------------------------------------------------------
(* Bounds *)

MaxRows == 2        \* rows of a CSV file in a run of main
MaxCsvRows == 3     \* rows of a CSV file given to read_csv_cases alone
MaxPad == 1         \* characters around the keyword of a degree text

-----------------------------------------------------------------------------
(* Python values *)

None == <<"None">>                  \* no character is "None"
Whitespace == {" "}

Truthy(v) == v # None /\ v # <<>>
\* a or b
Or(a, b) == IF Truthy(a) THEN a ELSE b

\* sub in s
Contains(s, sub) ==
    \E b \in 1..(Len(s) - Len(sub) + 1) : SubSeq(s, b, b + Len(sub) - 1) = sub

\* s.strip()
strip(s) ==
    LET keep == {j \in 1..Len(s) : s[j] \notin Whitespace}
    IN  IF keep = {} THEN <<>>
        ELSE LET lo == CHOOSE j \in keep : \A x \in keep : j <= x
                 hi == CHOOSE j \in keep : \A x \in keep : j >= x
             IN  SubSeq(s, lo, hi)

\* '_'.join(text.split(' ')): every space becomes an underscore
snake_case(text) ==
    [j \in 1..Len(text) |-> IF text[j] = " " THEN "_" ELSE text[j]]

fix_cause(cause) == snake_case(cause)

\* row.get(key)
RowGet(row, key) == IF key \in DOMAIN row THEN row[key] ELSE None

-----------------------------------------------------------------------------
(* RDF terms.  A URI string is <<namespace, local name>>; URIRef and Literal *)
(* are terms of a triple, str gives the URI string of a URIRef back.         *)

SsoUri(local) == <<"sso", local>>   \* f'http://www.semanticweb.org/lanre/ontologies/sso#{local}'
URIRef(u) == <<"uri", u[1], u[2]>>
Str(term) == <<term[2], term[3]>>
Literal(value, datatype) == <<"lit", datatype, value>>
sso(local) == URIRef(SsoUri(local))

RDF_type == <<"uri", "rdf", <<"type">>>>
OWL_NamedIndividual == <<"uri", "owl", <<"NamedIndividual">>>>
Accident_case == sso(<<"Accident_case">>)

\* SELECT ?s WHERE { ?s a sso:Accident_case }
read_existing_accident_cases(graph) ==
    {Str(t[1]) : t \in {x \in graph : x[2] = RDF_type /\ x[3] = Accident_case}}

\* SELECT ?s WHERE { ?s a owl:NamedIndividual }
read_named_individual_uris(graph) ==
    {Str(t[1]) : t \in {x \in graph : x[2] = RDF_type /\ x[3] = OWL_NamedIndividual}}

-----------------------------------------------------------------------------
(* AccidentCase *)

uri(case) == SsoUri(case.case_number)

NoError == [kind |-> "none", guess |-> <<"", <<>>>>]
Raised(kind) == [kind |-> kind, guess |-> <<"", <<>>>>]

normalized_degree(self) ==
    IF Contains(self.degree, <<"n","o","n","f","a","t","a","l">>)
       \/ Contains(self.degree, <<"n","o","n","-","f","a","t","a","l">>)
    THEN [raised |-> FALSE, value |-> <<"non_fatal_injury">>]
    ELSE IF Contains(self.degree, <<"f","a","t","a","l">>)
    THEN [raised |-> FALSE, value |-> <<"fatal_injury">>]
    ELSE [raised |-> TRUE, value |-> <<>>]

fixed_causes(self) == [j \in 1..Len(self.causes) |-> fix_cause(self.causes[j])]

-----------------------------------------------------------------------------
(* read_csv_cases *)

\* AccidentCase(source=row['Source'], ...): the case a row with a Source starts
NewCase(row) ==
    [source       |-> row["Source"],
     type         |-> row["Accident type"],
     title        |-> row["Title"],
     description  |-> row["Description"],
     date         |-> Or(RowGet(row, "Date"), RowGet(row, " Date")),
     degree       |-> row["Degree of injury"],
     case_number  |-> row["Case Number"],
     causes       |-> <<>>,
     equipments   |-> <<>>]

\* a variant of AppendToLast that appends to cases[0]
AppendToFirst(res, field, value) ==
    IF res.raised \/ value = <<>> THEN res
    ELSE IF res.cases = <<>> THEN [raised |-> TRUE, cases |-> res.cases]
    ELSE [raised |-> FALSE,
          cases  |-> [res.cases EXCEPT ![1] =
                         [@ EXCEPT ![field] = Append(@, value)]]]

\* a variant of AppendToLast that drops the value when there is no case yet
AppendToLastIfAny(res, field, value) ==
    IF res.raised \/ value = <<>> \/ res.cases = <<>> THEN res
    ELSE [raised |-> FALSE,
          cases  |-> [res.cases EXCEPT ![Len(res.cases)] =
                         [@ EXCEPT ![field] = Append(@, value)]]]

\* cases[-1].<field>.append(value); on an empty list cases[-1] is an IndexError
AppendToLast(res, field, value) ==
    IF res.raised \/ value = <<>> THEN res
    ELSE IF res.cases = <<>> THEN [raised |-> TRUE, cases |-> res.cases]
    ELSE [raised |-> FALSE,
          cases  |-> [res.cases EXCEPT ![Len(res.cases)] =
                         [@ EXCEPT ![field] = Append(@, value)]]]

\* the body of `for row in reader`
RowStep(cs, row) ==
    LET started == IF Truthy(row["Source"]) THEN Append(cs, NewCase(row)) ELSE cs
        cause == strip(row["Accident cause"])
        equipment == strip(row["Equipment"])
    IN  AppendToLast(AppendToLast([raised |-> FALSE, cases |-> started],
                                  "causes", cause),
                     "equipments", equipment)

\* one iteration of the loop of read_csv_cases
ReadRow ==
    /\ pc = "read"
    /\ r <= Len(csv)
    /\ LET res == RowStep(cases, csv[r])
       IN  IF res.raised
           THEN /\ pc' = "failed"
                /\ err' = Raised("IndexError")
                /\ UNCHANGED <<r, cases>>
           ELSE /\ cases' = res.cases
                /\ r' = r + 1
                /\ UNCHANGED <<pc, err>>
    /\ UNCHANGED <<csv, owl, import_cases, g, existing_cases, named_individuals,
                   i, k, out, degree, normalized>>

\* return cases; main binds it to import_cases
ReturnCases ==
    /\ pc = "read"
    /\ r > Len(csv)
    /\ import_cases' = cases
    /\ pc' = "load"
    /\ UNCHANGED <<csv, owl, r, cases, g, existing_cases, named_individuals,
                   i, k, err, out, degree, normalized>>

-----------------------------------------------------------------------------
(* Input files *)

DateHeaders == {"Date", " Date"}
CaseNumbers == {<<"1">>, <<"2">>}

Row(hdr, source, number, type, deg, date, cause, equipment) ==
    ("Source" :> source) @@ ("Accident type" :> type) @@ ("Title" :> <<"t">>)
    @@ ("Description" :> <<"x">>) @@ (hdr :> date) @@ ("Degree of injury" :> deg)
    @@ ("Accident cause" :> cause) @@ ("Equipment" :> equipment)
    @@ ("Case Number" :> number)

\* rows that start a case, and rows that continue one
StartRows(hdr) ==
    {Row(hdr, <<"s">>, n, <<"a"," ","b">>, d, dt, <<>>, <<>>) :
        n \in CaseNumbers,
        d \in {<<"f","a","t","a","l">>, <<"x">>},
        dt \in {<<>>, <<" ">>, <<"d">>}}
ContinuationRows(hdr) ==
    {Row(hdr, <<>>, <<>>, <<>>, <<>>, <<>>, c, e) :
        c \in {<<>>, <<" ","c"," ">>},
        e \in {<<>>, <<"a"," ","b">>}}

SeqsUpTo(S, n) == UNION {[1..m -> S] : m \in 0..n}

CsvFiles ==
    UNION {SeqsUpTo(StartRows(h) \cup ContinuationRows(h), MaxRows) : h \in DateHeaders}

\* rows for read_csv_cases alone: Source, cause and equipment vary
GroupingRows ==
    {Row("Date", s, <<"1">>, <<"a">>, <<"f","a","t","a","l">>, <<"d">>, c, e) :
        s \in {<<>>, <<"s">>},
        c \in {<<>>, <<" ">>, <<" ","c"," ">>},
        e \in {<<>>, <<"e"," ">>}}

BaseTriples ==
    {<<sso(<<"1">>), RDF_type, Accident_case>>}
    \cup {<<sso(n), RDF_type, OWL_NamedIndividual>> :
            n \in {<<"a","_","b">>, <<"c">>, <<"fatal_injury">>}}

-----------------------------------------------------------------------------
(* main *)

Case == import_cases[i]
ref == URIRef(uri(Case))

\* g.parse(args.owl) and the two indexes
LoadGraph ==
    /\ pc = "load"
    /\ g' = owl
    /\ existing_cases' = read_existing_accident_cases(owl)
    /\ named_individuals' = read_named_individual_uris(owl)
    /\ i' = 1
    /\ pc' = "case"
    /\ UNCHANGED <<csv, owl, r, cases, import_cases, k, err, out, degree, normalized>>

\* fuzzywuzzy process.extractOne: one of the choices (the best by a score that
\* is not modelled).  For no choices it returns None, or, in the releases whose
\* generator ends with `raise StopIteration`, the call raises RuntimeError.
RuntimeError == <<"RuntimeError">>
extractOne(query, choices) == IF choices = {} THEN {None, RuntimeError} ELSE choices

\* a variant of assert_uri_exists that returns every term unchecked
assert_uri_exists_unchecked(term) == {NoError}

\* the exceptions assert_uri_exists(term) can end with; NoError when it returns
assert_uri_exists(term) ==
    IF Str(term) \in named_individuals
    THEN {NoError}
    ELSE {IF best = None
          THEN Raised("TypeError")      \* guess,confidence = None
          ELSE IF best = RuntimeError
          THEN Raised("RuntimeError")
          ELSE [kind |-> "missing_individual", guess |-> best] :
             best \in extractOne(Str(term), named_individuals)}

\* a variant of AddReference that notes the exception, skips the triple and goes on
AddReferenceSkipping(predicate, term, nextpc, nexti, nextk) ==
    \E e \in assert_uri_exists(term) :
        /\ g' = IF e = NoError THEN g \cup {<<ref, predicate, term>>} ELSE g
        /\ err' = IF e = NoError THEN err ELSE e
        /\ pc' = nextpc
        /\ i' = nexti
        /\ k' = nextk

\* g.add((ref, predicate, assert_uri_exists(term))), then go on at nextpc
AddReference(predicate, term, nextpc, nexti, nextk) ==
    \E e \in assert_uri_exists(term) :
        IF e = NoError
        THEN /\ g' = g \cup {<<ref, predicate, term>>}
             /\ pc' = nextpc
             /\ i' = nexti
             /\ k' = nextk
             /\ UNCHANGED err
        ELSE /\ pc' = "failed"
             /\ err' = e
             /\ UNCHANGED <<g, i, k>>

CaseNode(case) ==
    {<<URIRef(uri(case)), RDF_type, OWL_NamedIndividual>>,
     <<URIRef(uri(case)), RDF_type, Accident_case>>,
     <<URIRef(uri(case)), sso(<<"Title">>), Literal(case.title, "string")>>}

DateTriple(case) ==
    <<URIRef(uri(case)), sso(<<"Date">>), Literal(case.date, "dateTime")>>

CaseLiterals(case) ==
    {<<URIRef(uri(case)), sso(<<"Description">>), Literal(case.description, "string")>>,
     <<URIRef(uri(case)), sso(<<"Source">>), Literal(case.source, "anyURI")>>}

\* a variant of BeginCase that creates the case node before the duplicate guard
BeginCaseGuardAfterNode ==
    /\ pc = "case"
    /\ i <= Len(import_cases)
    /\ IF uri(Case) \in existing_cases
       THEN /\ g' = g \cup CaseNode(Case)
            /\ pc' = "failed"
            /\ err' = Raised("duplicate_case")
       ELSE IF Case.date = None
       THEN /\ g' = g \cup CaseNode(Case)
            /\ pc' = "failed"
            /\ err' = Raised("AttributeError")
       ELSE /\ g' = g \cup CaseNode(Case)
                      \cup (IF strip(Case.date) # <<>> THEN {DateTriple(Case)} ELSE {})
                      \cup CaseLiterals(Case)
            /\ pc' = "type"
            /\ UNCHANGED err
    /\ UNCHANGED <<csv, owl, r, cases, import_cases, existing_cases,
                   named_individuals, i, k, out, degree, normalized>>

\* a variant of BeginCase that adds each imported case to existing_cases
BeginCaseRemembering ==
    /\ pc = "case"
    /\ i <= Len(import_cases)
    /\ IF uri(Case) \in existing_cases
       THEN /\ pc' = "failed"
            /\ err' = Raised("duplicate_case")
            /\ UNCHANGED <<g, existing_cases>>
       ELSE IF Case.date = None
       THEN /\ g' = g \cup CaseNode(Case)
            /\ existing_cases' = existing_cases \cup {uri(Case)}
            /\ pc' = "failed"
            /\ err' = Raised("AttributeError")
       ELSE /\ g' = g \cup CaseNode(Case)
                      \cup (IF strip(Case.date) # <<>> THEN {DateTriple(Case)} ELSE {})
                      \cup CaseLiterals(Case)
            /\ existing_cases' = existing_cases \cup {uri(Case)}
            /\ pc' = "type"
            /\ UNCHANGED err
    /\ UNCHANGED <<csv, owl, r, cases, import_cases,
                   named_individuals, i, k, out, degree, normalized>>

\* the duplicate guard, the case node and the literal triples of one case
BeginCase ==
    /\ pc = "case"
    /\ i <= Len(import_cases)
    /\ IF uri(Case) \in existing_cases
       THEN /\ pc' = "failed"
            /\ err' = Raised("duplicate_case")
            /\ UNCHANGED g
       ELSE IF Case.date = None
       THEN /\ g' = g \cup CaseNode(Case)       \* None.strip()
            /\ pc' = "failed"
            /\ err' = Raised("AttributeError")
       ELSE /\ g' = g \cup CaseNode(Case)
                      \cup (IF strip(Case.date) # <<>> THEN {DateTriple(Case)} ELSE {})
                      \cup CaseLiterals(Case)
            /\ pc' = "type"
            /\ UNCHANGED err
    /\ UNCHANGED <<csv, owl, r, cases, import_cases, existing_cases,
                   named_individuals, i, k, out, degree, normalized>>

AfterType(case) ==
    IF case.causes # <<>> THEN "cause"
    ELSE IF case.equipments # <<>> THEN "equipment" ELSE "degree"

AddAccidentType ==
    /\ pc = "type"
    /\ AddReference(sso(<<"has_accident_type">>), sso(snake_case(Case.type)),
                    AfterType(Case), i, 1)
    /\ UNCHANGED <<csv, owl, r, cases, import_cases, existing_cases,
                   named_individuals, out, degree, normalized>>

\* one iteration of `for cause in case.fixed_causes()`
AddCause ==
    /\ pc = "cause"
    /\ IF k < Len(Case.causes)
       THEN AddReference(sso(<<"has_accident_cause">>), sso(fixed_causes(Case)[k]),
                         "cause", i, k + 1)
       ELSE AddReference(sso(<<"has_accident_cause">>), sso(fixed_causes(Case)[k]),
                         IF Case.equipments # <<>> THEN "equipment" ELSE "degree", i, 1)
    /\ UNCHANGED <<csv, owl, r, cases, import_cases, existing_cases,
                   named_individuals, out, degree, normalized>>

\* one iteration of `for equipment in case.equipments`
AddEquipment ==
    /\ pc = "equipment"
    /\ AddReference(sso(<<"involves_the_use_of">>), sso(snake_case(Case.equipments[k])),
                    IF k < Len(Case.equipments) THEN "equipment" ELSE "degree",
                    i, IF k < Len(Case.equipments) THEN k + 1 ELSE 1)
    /\ UNCHANGED <<csv, owl, r, cases, import_cases, existing_cases,
                   named_individuals, out, degree, normalized>>

\* the resulted_in triple; the loop then goes to the next case
AddDegree ==
    /\ pc = "degree"
    /\ LET nd == normalized_degree(Case)
       IN  IF nd.raised
           THEN /\ pc' = "failed"
                /\ err' = Raised("unknown_degree")
                /\ UNCHANGED <<g, i, k>>
           ELSE AddReference(sso(<<"resulted_in">>), sso(nd.value), "case", i + 1, 1)
    /\ UNCHANGED <<csv, owl, r, cases, import_cases, existing_cases,
                   named_individuals, out, degree, normalized>>

\* the loop is over: print("Import Complete") and the summary line
Complete ==
    /\ pc = "case"
    /\ i > Len(import_cases)
    /\ pc' = "done"
    /\ UNCHANGED <<csv, owl, r, cases, import_cases, g, existing_cases,
                   named_individuals, i, k, err, out, degree, normalized>>

-----------------------------------------------------------------------------
(* A call of normalized_degree on a degree text *)

NotCalled == [raised |-> FALSE, value |-> <<>>]

NormalizeDegree ==
    /\ pc = "normalize"
    /\ normalized' = normalized_degree([degree |-> degree])
    /\ pc' = "normalized"
    /\ UNCHANGED <<csv, owl, r, cases, import_cases, g, existing_cases,
                   named_individuals, i, k, err, out, degree>>

Upper(c) ==
    CASE c = "n" -> "N" [] c = "o" -> "O" [] c = "f" -> "F" [] c = "a" -> "A"
      [] c = "t" -> "T" [] c = "l" -> "L" [] OTHER -> c

Keywords ==
    {<<"f","a","t","a","l">>, <<"n","o","n","f","a","t","a","l">>,
     <<"n","o","n","-","f","a","t","a","l">>, <<"f","a","t">>, <<>>}

\* word with the letters at the positions of caps in upper case
Cased(word, caps) == [j \in 1..Len(word) |-> IF j \in caps THEN Upper(word[j]) ELSE word[j]]

DegreeTexts ==
    {pre \o Cased(w[1], w[2]) \o post :
        pre \in SeqsUpTo({" ", "x"}, MaxPad),
        w \in UNION {{<<word, caps>> : caps \in SUBSET (1..Len(word))} : word \in Keywords},
        post \in SeqsUpTo({" ", "x"}, MaxPad)}

-----------------------------------------------------------------------------
(* Specifications *)

NotWritten == [written |-> FALSE, graph |-> {}]

Start ==
    /\ r = 1
    /\ cases = <<>>
    /\ import_cases = <<>>
    /\ g = {}
    /\ existing_cases = {}
    /\ named_individuals = {}
    /\ i = 1
    /\ k = 1
    /\ err = NoError
    /\ out = NotWritten
    /\ normalized = NotCalled

\* a run of main
Init ==
    /\ csv \in CsvFiles
    /\ owl \in SUBSET BaseTriples
    /\ pc = "read"
    /\ degree = <<>>
    /\ Start

Next ==
    \/ ReadRow
    \/ ReturnCases
    \/ LoadGraph
    \/ BeginCase
    \/ AddAccidentType
    \/ AddCause
    \/ AddEquipment
    \/ AddDegree
    \/ Complete

Spec == Init /\ [][Next]_vars

\* a call of read_csv_cases
InitCsv ==
    /\ csv \in SeqsUpTo(GroupingRows, MaxCsvRows)
    /\ owl = {}
    /\ pc = "read"
    /\ degree = <<>>
    /\ Start

NextCsv ==
    \/ ReadRow
    \/ ReturnCases

SpecCsv == InitCsv /\ [][NextCsv]_vars

\* a call of normalized_degree
InitDegree ==
    /\ degree \in DegreeTexts
    /\ csv = <<>>
    /\ owl = {}
    /\ pc = "normalize"
    /\ Start

NextDegree == NormalizeDegree

SpecDegree == InitDegree /\ [][NextDegree]_vars

-----------------------------------------------------------------------------
(* What the claims speak of *)

InImportLoop ==
    \/ pc \in {"case", "type", "cause", "equipment", "degree", "done"}
    \/ pc = "failed" /\ err.kind # "IndexError"

ReferencePredicates ==
    {sso(<<"has_accident_type">>), sso(<<"has_accident_cause">>),
     sso(<<"involves_the_use_of">>), sso(<<"resulted_in">>)}

NonBlank(text) == text # None /\ strip(text) # <<>>

\* the generated individuals a case refers to (its degree apart)
ReferenceTriples(case) ==
    {<<URIRef(uri(case)), sso(<<"has_accident_type">>), sso(snake_case(case.type))>>}
    \cup {<<URIRef(uri(case)), sso(<<"has_accident_cause">>), sso(snake_case(case.causes[j]))>> :
            j \in 1..Len(case.causes)}
    \cup {<<URIRef(uri(case)), sso(<<"involves_the_use_of">>), sso(snake_case(case.equipments[j]))>> :
            j \in 1..Len(case.equipments)}

DegreeTriples(case) ==
    IF normalized_degree(case).raised THEN {}
    ELSE {<<URIRef(uri(case)), sso(<<"resulted_in">>), sso(normalized_degree(case).value)>>}

\* the triples an imported case is to leave in the graph
ExpectedTriples(case) ==
    CaseNode(case) \cup CaseLiterals(case)
    \cup (IF NonBlank(case.date) THEN {DateTriple(case)} ELSE {})
    \cup ReferenceTriples(case) \cup DegreeTriples(case)

\* every reference of the case is a NamedIndividual of the base graph
ReferencesExist(case) ==
    /\ ~normalized_degree(case).raised
    /\ \A t \in ReferenceTriples(case) \cup DegreeTriples(case) :
          Str(t[3]) \in read_named_individual_uris(owl)

\* the cases the loop has finished
Imported == IF InImportLoop THEN 1..(i - 1) ELSE {}

\* the term the next step of the loop hands to assert_uri_exists, if any
PendingReferences ==
    IF pc = "type" THEN {sso(snake_case(Case.type))}
    ELSE IF pc = "cause" THEN {sso(fix_cause(Case.causes[k]))}
    ELSE IF pc = "equipment" THEN {sso(snake_case(Case.equipments[k]))}
    ELSE IF pc = "degree" /\ ~normalized_degree(Case).raised
    THEN {sso(normalized_degree(Case).value)}
    ELSE {}

-----------------------------------------------------------------------------
(* C1 *)

\* C1: a run of main in which every case passes the duplicate guard and every
\* reference validation ends with the graph serialized to the --out file:
\* the output exists and holds the base graph and the triples of every case.
C1_OutputWritten ==
    pc = "done" =>
        /\ out.written
        /\ owl \subseteq out.graph
        /\ \A j \in 1..Len(import_cases) : ExpectedTriples(import_cases[j]) \subseteq out.graph

-----------------------------------------------------------------------------
(* C2 *)

\* C2: a run is all-or-nothing: once a case fails the run is over, no later
\* case is processed and nothing is written to the output, whatever earlier
\* cases have added to the graph in memory.
C2_AllOrNothing ==
    err # NoError => (pc = "failed" /\ ~out.written /\ ~ENABLED Next)

\* the second case fails after the first has added all its triples
C2_Witness ==
    /\ pc = "failed"
    /\ i = 2
    /\ err.kind \in {"duplicate_case", "missing_individual", "unknown_degree"}
    /\ ExpectedTriples(import_cases[1]) \subseteq g
    /\ ~(ExpectedTriples(import_cases[1]) \subseteq owl)

-----------------------------------------------------------------------------
(* C3 *)

\* C3: when the loop reaches a case whose URI is an Accident_case of the
\* loaded graph, the run fails with the duplicate-case error and no triple
\* is added to the graph.
C3_DuplicateRejected ==
    [][(pc = "case" /\ i <= Len(import_cases)
            /\ uri(Case) \in read_existing_accident_cases(owl))
        => (pc' = "failed" /\ err'.kind = "duplicate_case" /\ g' = g)]_vars

\* a duplicate met after another case was imported
C3_Witness ==
    /\ pc = "failed"
    /\ err.kind = "duplicate_case"
    /\ i = 2
    /\ uri(Case) \in read_existing_accident_cases(owl)

-----------------------------------------------------------------------------
(* C4 *)

\* C4: every triple the tool has added with one of the four reference
\* predicates has an object among the NamedIndividual URIs of the base graph.
C4_ReferencesValidated ==
    \A t \in g \ owl :
        t[2] \in ReferencePredicates => Str(t[3]) \in read_named_individual_uris(owl)

\* a finished run that added a reference of each of the four kinds
C4_Witness ==
    /\ pc = "done"
    /\ \A p \in ReferencePredicates : \E t \in g \ owl : t[2] = p

-----------------------------------------------------------------------------
(* C5 *)

\* C5: whenever the generated URI handed to assert_uri_exists is not among
\* the NamedIndividual URIs, the run fails with the missing-individual error
\* and the error carries one of the existing URIs as its suggestion.
C5_MissingCarriesSuggestion ==
    [][\A t \in PendingReferences :
          Str(t) \notin named_individuals
          => (pc' = "failed" /\ err'.kind = "missing_individual"
                /\ err'.guess \in named_individuals)]_vars

-----------------------------------------------------------------------------
(* C6 *)

\* the rows with a populated Source, and the n-th of them
Starts(rows) == {j \in 1..Len(rows) : rows[j]["Source"] # <<>>}
NthStart(rows, n) ==
    CHOOSE j \in Starts(rows) : Cardinality({x \in Starts(rows) : x <= j}) = n
\* the last row of the group that begins at row b
GroupEnd(rows, b) ==
    IF \E x \in Starts(rows) : x > b
    THEN (CHOOSE x \in Starts(rows) : x > b /\ \A y \in Starts(rows) : y > b => x <= y) - 1
    ELSE Len(rows)
\* the stripped non-empty values of a column over rows b..e, in row order
ColumnValues(rows, column, b, e) ==
    LET stripped == [j \in 1..(e - b + 1) |-> strip(rows[b + j - 1][column])]
    IN  SelectSeq(stripped, LAMBDA v : v # <<>>)

\* C6: read_csv_cases gives one case per row with a populated Source, in row
\* order; the causes (equipments) of a case are the stripped non-empty
\* 'Accident cause' ('Equipment') values of the rows from its first row up
\* to the row before the next populated Source, in row order.
C6_GroupedInOrder ==
    pc = "load" =>
        /\ Len(import_cases) = Cardinality(Starts(csv))
        /\ \A n \in 1..Len(import_cases) :
            LET b == NthStart(csv, n)
                e == GroupEnd(csv, b)
            IN  /\ import_cases[n].source = csv[b]["Source"]
                /\ import_cases[n].case_number = csv[b]["Case Number"]
                /\ import_cases[n].causes = ColumnValues(csv, "Accident cause", b, e)
                /\ import_cases[n].equipments = ColumnValues(csv, "Equipment", b, e)

\* two cases, the first with a value from a continuation row, the second with
\* no cause and no equipment
C6_Witness ==
    /\ pc = "load"
    /\ Len(csv) = 3
    /\ Len(import_cases) = 2
    /\ Starts(csv) = {1, 3}
    /\ strip(csv[2]["Accident cause"]) # <<>>
    /\ import_cases[1].causes # <<>>
    /\ import_cases[2].causes = <<>>
    /\ import_cases[2].equipments = <<>>

-----------------------------------------------------------------------------
(* C7 *)

FirstRowLacksSource == Len(csv) >= 1 /\ csv[1]["Source"] = <<>>
FirstRowBlank ==
    /\ strip(csv[1]["Accident cause"]) = <<>>
    /\ strip(csv[1]["Equipment"]) = <<>>

\* C7 as stated: read_csv_cases fails on the first data row whenever that row
\* has an empty Source, whatever its cause and equipment values are; the row
\* is never passed over.
C7_FirstRowWithoutSourceFails ==
    FirstRowLacksSource => (r = 1 /\ pc \in {"read", "failed"})

\* C7 as amended: read_csv_cases fails on the first data row when that row
\* has an empty Source and a cause or equipment value that is not blank; when
\* both values are blank the row is passed over, no case is created for it
\* and reading goes on with the next row.
C7_FirstRowWithoutSource ==
    FirstRowLacksSource =>
        /\ ~FirstRowBlank => (r = 1 /\ pc \in {"read", "failed"})
        /\ (~FirstRowBlank /\ pc = "failed") => err.kind = "IndexError"
        /\ (FirstRowBlank /\ r = 2) => cases = <<>>
        /\ (FirstRowBlank /\ r = 1) => (pc = "read" /\ err = NoError)

\* the first row has no Source and an equipment value only: the read failed
C7_Witness ==
    /\ FirstRowLacksSource
    /\ strip(csv[1]["Accident cause"]) = <<>>
    /\ strip(csv[1]["Equipment"]) # <<>>
    /\ pc = "failed"
    /\ err.kind = "IndexError"

-----------------------------------------------------------------------------
(* C8 *)

Lower(c) ==
    CASE c = "N" -> "n" [] c = "O" -> "o" [] c = "F" -> "f" [] c = "A" -> "a"
      [] c = "T" -> "t" [] c = "L" -> "l" [] OTHER -> c
LowerText(text) == [j \in 1..Len(text) |-> Lower(text[j])]

\* C8: normalized_degree matches substrings in any letter case: a text with
\* 'nonfatal' or 'non-fatal' gives non_fatal_injury, else a text with 'fatal'
\* gives fatal_injury, else the call fails; nothing else is returned.
C8_CaseInsensitive ==
    pc = "normalized" =>
        normalized =
            IF Contains(LowerText(degree), <<"n","o","n","f","a","t","a","l">>)
               \/ Contains(LowerText(degree), <<"n","o","n","-","f","a","t","a","l">>)
            THEN [raised |-> FALSE, value |-> <<"non_fatal_injury">>]
            ELSE IF Contains(LowerText(degree), <<"f","a","t","a","l">>)
            THEN [raised |-> FALSE, value |-> <<"fatal_injury">>]
            ELSE [raised |-> TRUE, value |-> <<>>]

-----------------------------------------------------------------------------
(* C9 *)

\* C9: a case that passes the duplicate guard and whose references all exist
\* is imported without error, and leaves its type, title, description,
\* source and reference triples in the graph, with a Date triple exactly
\* when its date is not blank.
C9_DateOptional ==
    /\ \A j \in Imported :
          /\ ExpectedTriples(import_cases[j]) \subseteq g
          /\ DateTriple(import_cases[j]) \in g <=> NonBlank(import_cases[j].date)
    /\ (InImportLoop /\ pc = "failed" /\ i <= Len(import_cases))
          => ~(/\ uri(Case) \notin read_existing_accident_cases(owl)
               /\ ReferencesExist(Case))

-----------------------------------------------------------------------------
(* C10 *)

\* C10: the duplicate guard compares a case with the Accident_case URIs of
\* the base graph only, a set the loop never updates: a case is rejected as
\* a duplicate only when its URI is in the base graph, and of two imported
\* cases of one CSV with the same Case Number both leave their triples under
\* the same subject.
C10_GuardAgainstBaseOnly ==
    InImportLoop =>
        /\ existing_cases = read_existing_accident_cases(owl)
        /\ err.kind = "duplicate_case" => uri(Case) \in read_existing_accident_cases(owl)
        /\ \A a, b \in Imported :
              import_cases[a].case_number = import_cases[b].case_number
              => ExpectedTriples(import_cases[a]) \cup ExpectedTriples(import_cases[b]) \subseteq g

\* a finished run that imported two different cases with the same Case Number
C10_Witness ==
    /\ pc = "done"
    /\ \E a, b \in Imported :
          /\ a < b
          /\ import_cases[a] # import_cases[b]
          /\ import_cases[a].case_number = import_cases[b].case_number
          /\ uri(import_cases[a]) \notin read_existing_accident_cases(owl)
          /\ ExpectedTriples(import_cases[a]) \cup ExpectedTriples(import_cases[b]) \subseteq g

====
